---- MODULE Spec2Model ----
(***************************************************************************)
(* The control runner of the plugin supervisor (package control):          *)
(*   runner.go   idCounter, runner.Start/Stop, startPlugin, stopPlugin,    *)
(*               HandleGomitEvent, checkPool                               *)
(*   monitor.go  monitor.Start/Stop and the sweep loop                     *)
(* The specifications share the variables:                                 *)
(*   SpecId   concurrent callers of idCounter.Next                         *)
(*   Spec     concurrent HandleGomitEvent invocations                      *)
(*   SpecFair Spec under the scheduler's fairness                          *)
(*   SpecLife Spec together with stopPlugin calls                          *)
(*   SpecMon  runner.Start/Stop, monitor.Start/Stop and the sweep loops    *)
(*   SpecSweep event handling and stopPlugin next to a sweeping monitor    *)
(*   SpecFrame the same, with monitor.Stop                                 *)
(***************************************************************************)
EXTENDS Integers, Sequences, FiniteSets, TLC

\* ------------------------------------------------------------------ bounds
NumThreads == 2
MaxCalls == 3
MaxPlugins == 4
MaxDelegates == 3
MaxStarts == 2
MaxSweepPlugins == 2

\* --------------------------------------------------------------- constants
MaximumRunningPlugins == 3

VARIABLES
    \* idCounter (runner.apIdCounter)
    id,         \* idCounter.id
    idMutex,    \* idCounter.mutex: 0 free, else the thread holding it
    npc,        \* per thread: position inside idCounter.Next
    nret,       \* per thread: the value Next returns
    nhwm,       \* per thread: largest value returned by calls completed when this call began
    returned,   \* values returned by completed direct calls, in completion order
    \* runner: event handling
    availablePlugins, \* runner.availablePlugins: the three tables of pools
    aps,        \* every availablePlugin built so far, in creation order (index = pointer)
    mutex,      \* runner.mutex: 0 free, else the handler holding it
    handler,    \* per thread: the HandleGomitEvent invocation it runs
    lastReturn, \* the operation that returned last, and what its caller got
    panicked,   \* an unrecovered panic has ended the process
    \* runner lifecycle and monitor
    delegates,  \* runner.delegates
    registered, \* the delegates that hold the runner as their handler
    ctl,        \* the caller of Start/Stop: where it is, and what the call returned
    mState,     \* monitor.State
    quit,       \* monitor.quit: 0 nil, else a channel
    closed,     \* the channels that have been closed
    loops,      \* the goroutines launched by monitor.Start, in launch order
    regLock,    \* the registry lock: 0 free, else the loop holding it
    probed,     \* the instances whose health probe, dispatched by the last sweep, still runs
    mcalls      \* the monitor.Start / monitor.Stop calls made, in order

idVars == <<id, idMutex, npc, nret, nhwm, returned>>
evVars == <<availablePlugins, aps, mutex, handler, lastReturn>>
monVars == <<delegates, registered, ctl, mState, quit, closed, loops, regLock, probed, mcalls>>
vars == <<id, idMutex, npc, nret, nhwm, returned,
          availablePlugins, aps, mutex, handler, lastReturn, panicked,
          delegates, registered, ctl, mState, quit, closed, loops, regLock, probed, mcalls>>

Threads == 1..NumThreads

RECURSIVE SeqMax(_)
SeqMax(s) == IF s = <<>> THEN 0
             ELSE LET m == SeqMax(Tail(s)) IN IF Head(s) > m THEN Head(s) ELSE m

SeqToSet(s) == {s[i] : i \in 1..Len(s)}

\* ------------------------------------------------------- idCounter.Next
\* A thread enters Next(): it is about to run i.mutex.Lock().
NextEnter(t) ==
    /\ npc[t] = "idle"
    /\ npc' = [npc EXCEPT ![t] = "lock"]
    /\ nhwm' = [nhwm EXCEPT ![t] = SeqMax(returned)]
    /\ UNCHANGED <<id, idMutex, nret, returned>>

\* A Lock() that does not exclude: it succeeds whoever holds the mutex.
MutexFree_NoExclusion(m) == TRUE

\* sync.Mutex.Lock() blocks until the mutex is free.
MutexFree(m) == m = 0

NextLock(t) ==
    /\ ~panicked
    /\ npc[t] = "lock"
    /\ MutexFree(idMutex)
    /\ idMutex' = t
    /\ npc' = [npc EXCEPT ![t] = "inc"]
    /\ UNCHANGED <<id, nret, nhwm, returned>>
    /\ UNCHANGED <<evVars, monVars, panicked>>

\* A counter that hands out the value it holds without advancing.
NextInc_Stuck(t) ==
    /\ ~panicked
    /\ npc[t] = "inc"
    /\ npc' = [npc EXCEPT ![t] = "ret"]
    /\ UNCHANGED <<id, idMutex, nret, nhwm, returned>>
    /\ UNCHANGED <<evVars, monVars, panicked>>

\* i.id++
NextInc(t) ==
    /\ ~panicked
    /\ npc[t] = "inc"
    /\ id' = id + 1
    /\ npc' = [npc EXCEPT ![t] = "ret"]
    /\ UNCHANGED <<idMutex, nret, nhwm, returned>>
    /\ UNCHANGED <<evVars, monVars, panicked>>

\* return i.id: the result is read from the field
NextRet(t) ==
    /\ ~panicked
    /\ npc[t] = "ret"
    /\ nret' = [nret EXCEPT ![t] = id]
    /\ npc' = [npc EXCEPT ![t] = "unlock"]
    /\ UNCHANGED <<id, idMutex, nhwm, returned>>
    /\ UNCHANGED <<evVars, monVars, panicked>>

\* defer i.mutex.Unlock()
NextUnlock(t) ==
    /\ ~panicked
    /\ npc[t] = "unlock"
    /\ idMutex' = 0
    /\ npc' = [npc EXCEPT ![t] = "done"]
    /\ UNCHANGED <<id, nret, nhwm, returned>>
    /\ UNCHANGED <<evVars, monVars, panicked>>

\* ------------------------------------------------ availablePlugin states
\* PluginRunning availablePluginState = iota - 1 in a const block whose first
\* line (HandlerRegistrationName) is iota 0: Running is the zero value.
PluginRunning == 1 - 1
PluginStopped == 2 - 1
PluginDisabled == 3 - 1

\* ------------------------------------------------ collaborators' contents
\* pluginManager.LoadedPlugins(): the loaded plugins the handler iterates.
LoadedPlugins ==
    << [TypeName |-> "collector", Name |-> "foo", Version |-> 1],
       [TypeName |-> "publisher", Name |-> "bar", Version |-> 2] >>

\* lp.Key(): the key of a loaded plugin (name, version, category).
Key(lp) == <<lp.TypeName, lp.Name, lp.Version>>

\* metricCatalog.Get(namespace, version): the index of the loaded plugin that
\* serves the metric, 0 for the not-found error.
MetricCatalogGet(ns, ver) == IF ns = "/foo" /\ ver = 1 THEN 1 ELSE 0

\* The event bodies delivered to HandleGomitEvent.
Events ==
    { [Type |-> "PublisherSubscriptionEvent", Name |-> "bar", Version |-> 2],
      [Type |-> "PublisherSubscriptionEvent", Name |-> "foo", Version |-> 1],
      [Type |-> "MetricSubscriptionEvent", Name |-> "/foo", Version |-> 1],
      [Type |-> "MetricSubscriptionEvent", Name |-> "/nope", Version |-> 1],
      [Type |-> "OtherEvent", Name |-> "", Version |-> 0] }

NoEvent == [Type |-> "none", Name |-> "", Version |-> 0]

\* ------------------------------------------------ the registry
EmptyTable == [k \in {} |-> {}]

newAvailablePlugins ==
    [Collectors |-> EmptyTable, Publishers |-> EmptyTable, Processors |-> EmptyTable]

TableFor(type) ==
    CASE type = "collector" -> "Collectors"
      [] type = "publisher" -> "Publishers"
      [] OTHER -> "Processors"

\* table.GetPluginPool(key): the pool, or nil when the key has none.
GetPluginPool(table, key) ==
    IF key \in DOMAIN table
    THEN [nil |-> FALSE, members |-> table[key]]
    ELSE [nil |-> TRUE, members |-> {}]

\* pool.Count()
Count(pool) == Cardinality(pool.members)

\* availablePlugins.Insert(ap): into the pool of ap's key, in the table of its
\* category; the pool is made when absent.
Insert(reg, p) ==
    LET k == aps[p].Key
        tb == TableFor(k[1])
    IN [reg EXCEPT ![tb] =
          IF k \in DOMAIN @ THEN [@ EXCEPT ![k] = @ \cup {p}]
          ELSE [x \in DOMAIN @ \cup {k} |-> IF x = k THEN {p} ELSE @[x]]]

\* Whether ap is in its pool.
Present(reg, p) ==
    LET k == aps[p].Key
        tb == TableFor(k[1])
    IN k \in DOMAIN reg[tb] /\ p \in reg[tb][k]

\* availablePlugins.Remove(ap): out of its pool; the caller gets an error when
\* it is not there.
Remove(reg, p) ==
    LET k == aps[p].Key
        tb == TableFor(k[1])
    IN IF Present(reg, p) THEN [reg EXCEPT ![tb][k] = @ \ {p}] ELSE reg

\* availablePlugins.Table(): every instance of every pool.
Table(reg) ==
    UNION {UNION {reg[tb][k] : k \in DOMAIN reg[tb]} :
             tb \in {"Collectors", "Publishers", "Processors"}}

\* ------------------------------------------------ checkPool
\* Admission with the comparison off by one: a full pool is still admitted.
checkPool_OffByOne(pool, key) ==
    IF ~pool.nil /\ Count(pool) > MaximumRunningPlugins THEN FALSE ELSE TRUE

checkPool(pool, key) ==
    IF ~pool.nil /\ Count(pool) >= MaximumRunningPlugins THEN FALSE ELSE TRUE

\* ------------------------------------------------ HandleGomitEvent
\* One invocation: its position (pc), the event body (ev), the loaded-plugin
\* iterator (idx), the plugin being started (lp), the executable handle (exe),
\* startPlugin's results (ap, err), the calls made to the process transport
\* (tc), and the registry as it was when the handler took the mutex (reg0).
IdleHandler ==
    [pc |-> "idle", ev |-> NoEvent, idx |-> 0, lp |-> 0, exe |-> "none",
     ap |-> 0, err |-> "", tc |-> 0, reg0 |-> newAvailablePlugins]

InFlight == Cardinality({h \in Threads : handler[h].pc # "idle"})

\* A return on which no deferred Unlock runs: the mutex stays with the handler.
Return_KeepsMutex(h, res) ==
    /\ handler' = [handler EXCEPT ![h] = IdleHandler]
    /\ mutex' = mutex
    /\ lastReturn' = [op |-> "HandleGomitEvent", ap |-> 0, res |-> res]

\* The handler returns: the deferred r.mutex.Unlock() runs and the invocation is over.
Return(h, res) ==
    /\ handler' = [handler EXCEPT ![h] = IdleHandler]
    /\ mutex' = 0
    /\ lastReturn' = [op |-> "HandleGomitEvent", ap |-> 0, res |-> res]

\* The event bus delivers an event: the switch on the body's type.
HandleGomitEvent(h, e) ==
    /\ ~panicked
    /\ handler[h].pc = "idle"
    /\ npc[h] = "idle"
    /\ Len(aps) + InFlight < MaxPlugins
    /\ IF e.Type \in {"PublisherSubscriptionEvent", "MetricSubscriptionEvent"}
       THEN handler' = [handler EXCEPT ![h] = [IdleHandler EXCEPT !.pc = "lock", !.ev = e]]
       ELSE handler' = handler
    /\ lastReturn' = IF e.Type \in {"PublisherSubscriptionEvent", "MetricSubscriptionEvent"}
                     THEN lastReturn
                     ELSE [op |-> "HandleGomitEvent", ap |-> 0, res |-> "ignored"]
    /\ UNCHANGED <<availablePlugins, aps, mutex, panicked, idVars, monVars>>

\* A handler that does not wait for r.mutex.
HLock_NoWait(h) ==
    /\ ~panicked
    /\ handler[h].pc = "lock"
    /\ mutex' = h
    /\ handler' = [handler EXCEPT
          ![h].pc = IF handler[h].ev.Type = "PublisherSubscriptionEvent"
                    THEN "pub_loop" ELSE "get",
          ![h].reg0 = availablePlugins]
    /\ UNCHANGED <<availablePlugins, aps, lastReturn, panicked, idVars, monVars>>

\* r.mutex.Lock()
HLock(h) ==
    /\ ~panicked
    /\ handler[h].pc = "lock"
    /\ MutexFree(mutex)
    /\ mutex' = h
    /\ handler' = [handler EXCEPT
          ![h].pc = IF handler[h].ev.Type = "PublisherSubscriptionEvent"
                    THEN "pub_loop" ELSE "get",
          ![h].reg0 = availablePlugins]
    /\ UNCHANGED <<availablePlugins, aps, lastReturn, panicked, idVars, monVars>>

\* for r.pluginManager.LoadedPlugins().Next() { _, lp := ...Item(); if lp matches ...
HPubLoop(h) ==
    /\ ~panicked
    /\ handler[h].pc = "pub_loop"
    /\ LET i == handler[h].idx + 1
           v == handler[h].ev
       IN IF i > Len(LoadedPlugins)
          THEN Return(h, IF handler[h].tc > 0 THEN "ok" ELSE "nomatch")
          ELSE /\ handler' = [handler EXCEPT
                     ![h].idx = i,
                     ![h].lp = IF /\ LoadedPlugins[i].TypeName = "publisher"
                                  /\ LoadedPlugins[i].Name = v.Name
                                  /\ LoadedPlugins[i].Version = v.Version
                               THEN i ELSE 0,
                     ![h].pc = IF /\ LoadedPlugins[i].TypeName = "publisher"
                                  /\ LoadedPlugins[i].Name = v.Name
                                  /\ LoadedPlugins[i].Version = v.Version
                               THEN "check" ELSE "pub_loop"]
               /\ UNCHANGED <<mutex, lastReturn>>
    /\ UNCHANGED <<availablePlugins, aps, panicked, idVars, monVars>>

\* A handler that goes on to the admission check after a failed lookup.
HGet_GoesOn(h) ==
    /\ ~panicked
    /\ handler[h].pc = "get"
    /\ handler' = [handler EXCEPT ![h].lp = 1, ![h].pc = "check"]
    /\ UNCHANGED <<mutex, lastReturn>>
    /\ UNCHANGED <<availablePlugins, aps, panicked, idVars, monVars>>

\* mt, err := r.metricCatalog.Get(v.MetricNamespace, v.Version); if err != nil { return }
HGet(h) ==
    /\ ~panicked
    /\ handler[h].pc = "get"
    /\ LET i == MetricCatalogGet(handler[h].ev.Name, handler[h].ev.Version)
       IN IF i = 0
          THEN Return(h, "miss")
          ELSE /\ handler' = [handler EXCEPT ![h].lp = i, ![h].pc = "check"]
               /\ UNCHANGED <<mutex, lastReturn>>
    /\ UNCHANGED <<availablePlugins, aps, panicked, idVars, monVars>>

\* pool := r.availablePlugins.<table>.GetPluginPool(key); ok := checkPool(pool, key);
\* if !ok { return }
HCheckPool(h) ==
    /\ ~panicked
    /\ handler[h].pc = "check"
    /\ LET key == Key(LoadedPlugins[handler[h].lp])
           table == IF handler[h].ev.Type = "PublisherSubscriptionEvent"
                    THEN availablePlugins.Publishers
                    ELSE availablePlugins.Collectors
           pool == GetPluginPool(table, key)
       IN IF checkPool(pool, key)
          THEN /\ handler' = [handler EXCEPT ![h].pc = "build"]
               /\ UNCHANGED <<mutex, lastReturn>>
          ELSE Return(h, "denied")
    /\ UNCHANGED <<availablePlugins, aps, panicked, idVars, monVars>>

\* ePlugin, err := plugin.NewExecutablePlugin(...): the error is printed at most,
\* and startPlugin is called with the handle either way.
HBuild(h, ok) ==
    /\ ~panicked
    /\ handler[h].pc = "build"
    /\ handler' = [handler EXCEPT ![h].pc = "sp_start",
                                  ![h].exe = IF ok THEN "built" ELSE "failed",
                                  ![h].tc = @ + 1]
    /\ UNCHANGED <<availablePlugins, aps, mutex, lastReturn, panicked, idVars, monVars>>

\* ------------------------------------------------ startPlugin
\* e := p.Start(); if e != nil { return nil, e_ }
\* A handle that could not be built cannot be started.
StartPlugin_Start(h, ok) ==
    /\ ~panicked
    /\ handler[h].pc = "sp_start"
    /\ ok => handler[h].exe = "built"
    /\ handler' = [handler EXCEPT
          ![h].tc = @ + 1,
          ![h].pc = IF ok THEN "sp_wait" ELSE "sp_fail",
          ![h].err = IF ok THEN "" ELSE "error while starting plugin"]
    /\ UNCHANGED <<availablePlugins, aps, mutex, lastReturn, panicked, idVars, monVars>>

WaitOutcomes == {"timeout", "nil", "failure", "success"}

\* resp, err := p.WaitForResponse(3s); the three checks of the response
StartPlugin_WaitForResponse(h, r) ==
    /\ ~panicked
    /\ handler[h].pc = "sp_wait"
    /\ handler' = [handler EXCEPT
          ![h].tc = @ + 1,
          ![h].pc = IF r = "success" THEN "sp_next" ELSE "sp_fail",
          ![h].err = CASE r = "timeout" -> "error while waiting for response"
                       [] r = "nil" -> "no reponse object returned from plugin"
                       [] r = "failure" -> "plugin could not start error"
                       [] OTHER -> ""]
    /\ UNCHANGED <<availablePlugins, aps, mutex, lastReturn, panicked, idVars, monVars>>

\* r.apIdCounter.Next() is called
StartPlugin_NextId(h) ==
    /\ ~panicked
    /\ handler[h].pc = "sp_next"
    /\ NextEnter(h)
    /\ handler' = [handler EXCEPT ![h].pc = "sp_id"]
    /\ UNCHANGED <<availablePlugins, aps, mutex, lastReturn, panicked, monVars>>

\* ap, err := newAvailablePlugin(resp, <id>, r.emitter); if err != nil { return nil, err }
\* The instance carries the identity, the key the plugin answered with, and
\* the zero State.
newAvailablePlugin(lp, newid) == [ID |-> newid, Key |-> Key(lp), State |-> 0]

TableNames == {"Collectors", "Publishers", "Processors"}

\* A startPlugin that registers the instance as soon as it is built, before the ping.
StartPlugin_New_InsertsEarly(h, ok) ==
    /\ ~panicked
    /\ handler[h].pc = "sp_id"
    /\ npc[h] = "done"
    /\ npc' = [npc EXCEPT ![h] = "idle"]
    /\ IF ok
       THEN /\ aps' = Append(aps, newAvailablePlugin(LoadedPlugins[handler[h].lp], nret[h]))
            /\ handler' = [handler EXCEPT ![h].pc = "sp_ping", ![h].ap = Len(aps) + 1]
            /\ availablePlugins' =
                  LET k == Key(LoadedPlugins[handler[h].lp])
                      tb == TableFor(k[1])
                  IN [availablePlugins EXCEPT ![tb] =
                        [x \in DOMAIN @ \cup {k} |->
                           IF x = k THEN (IF k \in DOMAIN @ THEN @[k] ELSE {}) \cup {Len(aps) + 1}
                           ELSE @[x]]]
       ELSE /\ aps' = aps
            /\ availablePlugins' = availablePlugins
            /\ handler' = [handler EXCEPT ![h].pc = "sp_fail",
                                          ![h].err = "newAvailablePlugin"]
    /\ UNCHANGED <<mutex, lastReturn, panicked, id, idMutex, nret, nhwm, returned, monVars>>

StartPlugin_New(h, ok) ==
    /\ ~panicked
    /\ handler[h].pc = "sp_id"
    /\ npc[h] = "done"
    /\ npc' = [npc EXCEPT ![h] = "idle"]
    /\ IF ok
       THEN /\ aps' = Append(aps, newAvailablePlugin(LoadedPlugins[handler[h].lp], nret[h]))
            /\ handler' = [handler EXCEPT ![h].pc = "sp_ping", ![h].ap = Len(aps) + 1]
       ELSE /\ aps' = aps
            /\ handler' = [handler EXCEPT ![h].pc = "sp_fail",
                                          ![h].err = "newAvailablePlugin"]
    /\ UNCHANGED <<availablePlugins, mutex, lastReturn, panicked,
                   id, idMutex, nret, nhwm, returned, monVars>>

\* err = ap.Client.Ping(); if err != nil { return nil, err }
StartPlugin_Ping(h, ok) ==
    /\ ~panicked
    /\ handler[h].pc = "sp_ping"
    /\ handler' = [handler EXCEPT
          ![h].pc = IF ok THEN "sp_insert" ELSE "sp_fail",
          ![h].ap = IF ok THEN @ ELSE 0,
          ![h].err = IF ok THEN "" ELSE "ping"]
    /\ UNCHANGED <<availablePlugins, aps, mutex, lastReturn, panicked, idVars, monVars>>

\* r.availablePlugins.Insert(ap); return ap, nil
StartPlugin_Insert(h) ==
    /\ ~panicked
    /\ handler[h].pc = "sp_insert"
    /\ availablePlugins' = Insert(availablePlugins, handler[h].ap)
    /\ handler' = [handler EXCEPT ![h].pc = "sp_ok"]
    /\ UNCHANGED <<aps, mutex, lastReturn, panicked, idVars, monVars>>

\* ------------------------------------------------ back in HandleGomitEvent
\* startPlugin returned (ap, nil): the publisher loop goes on, the metric case returns.
HStarted(h) ==
    /\ ~panicked
    /\ handler[h].pc = "sp_ok"
    /\ IF handler[h].ev.Type = "PublisherSubscriptionEvent"
       THEN /\ handler' = [handler EXCEPT ![h].pc = "pub_loop"]
            /\ UNCHANGED <<mutex, lastReturn>>
       ELSE Return(h, "ok")
    /\ UNCHANGED <<availablePlugins, aps, panicked, idVars, monVars>>

\* startPlugin returned (nil, err): if err != nil { panic(err) }. The deferred
\* Unlock runs while the panic unwinds; nothing recovers it.
HPanic(h) ==
    /\ ~panicked
    /\ handler[h].pc = "sp_fail"
    /\ handler' = [handler EXCEPT ![h] = [IdleHandler EXCEPT !.pc = "panic"]]
    /\ mutex' = 0
    /\ panicked' = TRUE
    /\ lastReturn' = [op |-> "HandleGomitEvent", ap |-> 0, res |-> "panic"]
    /\ UNCHANGED <<availablePlugins, aps, idVars, monVars>>

\* ------------------------------------------------ stopPlugin
\* The instances a caller can hold: those startPlugin has returned.
Held == {p \in 1..Len(aps) :
           \A h \in Threads : ~(handler[h].ap = p /\ handler[h].pc \in {"sp_ping", "sp_insert"})}

\* A stopPlugin that gives the identity of the removed instance back to the counter.
stopPlugin_ReleasesId(p, stopOk) ==
    /\ ~panicked
    /\ p \in Held
    /\ stopOk
    /\ Present(availablePlugins, p)
    /\ availablePlugins' = Remove(availablePlugins, p)
    /\ lastReturn' = [op |-> "stopPlugin", ap |-> p, res |-> "nil"]
    /\ id' = aps[p].ID - 1
    /\ UNCHANGED <<aps, mutex, handler, panicked, idMutex, npc, nret, nhwm, returned, monVars>>

\* A stopPlugin that removes the instance before it asks it to stop.
stopPlugin_RemovesFirst(p, stopOk) ==
    /\ ~panicked
    /\ p \in Held
    /\ availablePlugins' = Remove(availablePlugins, p)
    /\ lastReturn' = [op |-> "stopPlugin", ap |-> p,
                      res |-> IF ~Present(availablePlugins, p) THEN "remove_err"
                              ELSE IF stopOk THEN "nil" ELSE "stop_err"]
    /\ UNCHANGED <<aps, mutex, handler, panicked, idVars, monVars>>

\* err := ap.Stop(reason); if err != nil { return err }
\* err = r.availablePlugins.Remove(ap); if err != nil { return err }; return nil
stopPlugin(p, stopOk) ==
    /\ ~panicked
    /\ p \in Held
    /\ IF ~stopOk
       THEN /\ availablePlugins' = availablePlugins
            /\ lastReturn' = [op |-> "stopPlugin", ap |-> p, res |-> "stop_err"]
       ELSE /\ availablePlugins' = Remove(availablePlugins, p)
            /\ lastReturn' = [op |-> "stopPlugin", ap |-> p,
                              res |-> IF Present(availablePlugins, p) THEN "nil" ELSE "remove_err"]
    /\ UNCHANGED <<aps, mutex, handler, panicked, idVars, monVars>>

\* ------------------------------------------------ monitor states
\* MonitorStopped monitorState = iota - 1, the first line of its const block.
MonitorStopped == 0 - 1
MonitorStarted == 1 - 1

\* ------------------------------------------------ the caller of Start / Stop
\* One call at a time: the operation (op), the position in it (pc), the loop
\* index over r.delegates (i), the delegates asked so far (asked), the results
\* of RegisterHandler (outs), the errors collected by Stop (errs, by delegate),
\* what the call returned (res), and what the caller saw on entry: the
\* monitor's State (state0), the loops launched (loops0), len(r.delegates) (n0).
NoCall ==
    [pc |-> "done", op |-> "none", i |-> 0, asked |-> <<>>, outs |-> <<>>,
     errs |-> <<>>, res |-> "none", state0 |-> MonitorStopped, loops0 |-> 0, n0 |-> 0]

Begin(op, pc) ==
    [NoCall EXCEPT !.op = op, !.pc = pc, !.state0 = mState,
                   !.loops0 = Len(loops), !.n0 = Len(delegates)]

\* r.delegates = append(r.delegates, delegates...)
AddDelegates ==
    /\ ~panicked
    /\ ctl.pc = "done"
    /\ Len(delegates) < MaxDelegates
    /\ delegates' = Append(delegates, Len(delegates) + 1)
    /\ ctl' = [NoCall EXCEPT !.op = "AddDelegates"]
    /\ UNCHANGED <<registered, mState, quit, closed, loops, regLock, probed, mcalls>>
    /\ UNCHANGED <<idVars, evVars, panicked>>

\* ------------------------------------------------ runner.Start
\* if len(r.delegates) == 0 { return errors.New(...) }
RunnerStart ==
    /\ ~panicked
    /\ ctl.pc = "done"
    /\ Len(loops) < MaxStarts
    /\ ctl' = IF Len(delegates) = 0
              THEN [Begin("runner.Start", "done") EXCEPT !.res = "no_delegates"]
              ELSE [Begin("runner.Start", "rs_reg") EXCEPT !.i = 1]
    /\ UNCHANGED <<delegates, registered, mState, quit, closed, loops, regLock, probed, mcalls>>
    /\ UNCHANGED <<idVars, evVars, panicked>>

\* A Start that goes on to the next delegate after a failed registration.
RunnerStart_Register_IgnoresError(ok) ==
    /\ ~panicked
    /\ ctl.pc = "rs_reg"
    /\ registered' = IF ok THEN registered \cup {delegates[ctl.i]} ELSE registered
    /\ ctl' = [ctl EXCEPT !.asked = Append(@, delegates[ctl.i]),
                          !.outs = Append(@, ok),
                          !.i = @ + 1,
                          !.pc = IF ctl.i = Len(delegates) THEN "m_make" ELSE "rs_reg"]
    /\ UNCHANGED <<delegates, mState, quit, closed, loops, regLock, probed, mcalls>>
    /\ UNCHANGED <<idVars, evVars, panicked>>

\* for _, del := range r.delegates { e := del.RegisterHandler(...); if e != nil { return e } }
RunnerStart_Register(ok) ==
    /\ ~panicked
    /\ ctl.pc = "rs_reg"
    /\ registered' = IF ok THEN registered \cup {delegates[ctl.i]} ELSE registered
    /\ ctl' = IF ok
              THEN [ctl EXCEPT !.asked = Append(@, delegates[ctl.i]),
                               !.outs = Append(@, TRUE),
                               !.i = @ + 1,
                               !.pc = IF ctl.i = Len(delegates) THEN "m_make" ELSE "rs_reg"]
              ELSE [ctl EXCEPT !.asked = Append(@, delegates[ctl.i]),
                               !.outs = Append(@, FALSE),
                               !.pc = "done",
                               !.res = "register_err"]
    /\ UNCHANGED <<delegates, mState, quit, closed, loops, regLock, probed, mcalls>>
    /\ UNCHANGED <<idVars, evVars, panicked>>

\* ------------------------------------------------ monitor.Start
\* a direct call of r.Monitor().Start(...)
MonitorStart ==
    /\ ~panicked
    /\ ctl.pc = "done"
    /\ Len(loops) < MaxStarts
    /\ ctl' = Begin("monitor.Start", "m_make")
    /\ UNCHANGED <<delegates, registered, mState, quit, closed, loops, regLock, probed, mcalls>>
    /\ UNCHANGED <<idVars, evVars, panicked>>

\* ticker := time.NewTicker(...); m.quit = make(chan struct{}); go func() {...}()
Monitor_Start_Go ==
    /\ ~panicked
    /\ ctl.pc = "m_make"
    /\ quit' = Len(loops) + 1
    /\ loops' = Append(loops, [pc |-> "select", ch |-> 0])
    /\ mcalls' = Append(mcalls, "Start")
    /\ ctl' = [ctl EXCEPT !.pc = "m_state"]
    /\ UNCHANGED <<delegates, registered, mState, closed, regLock, probed>>
    /\ UNCHANGED <<idVars, evVars, panicked>>

\* m.State = MonitorStarted, and the call returns (runner.Start: return nil)
Monitor_Start_State ==
    /\ ~panicked
    /\ ctl.pc = "m_state"
    /\ mState' = MonitorStarted
    /\ ctl' = [ctl EXCEPT !.pc = "done", !.res = "ok"]
    /\ UNCHANGED <<delegates, registered, quit, closed, loops, regLock, probed, mcalls>>
    /\ UNCHANGED <<idVars, evVars, panicked>>

\* ------------------------------------------------ the loop goroutine
\* select { ... case <-m.quit: the channel operand is read on entering the select
Loop_Select(g) ==
    /\ ~panicked
    /\ loops[g].pc = "select"
    /\ loops' = [loops EXCEPT ![g] = [pc |-> "wait", ch |-> quit]]
    /\ UNCHANGED <<delegates, registered, ctl, mState, quit, closed, regLock, probed, mcalls>>
    /\ UNCHANGED <<idVars, evVars, panicked>>

\* case <-ticker.C:
Loop_Tick(g) ==
    /\ ~panicked
    /\ loops[g].pc = "wait"
    /\ loops' = [loops EXCEPT ![g].pc = "lock"]
    /\ UNCHANGED <<delegates, registered, ctl, mState, quit, closed, regLock, probed, mcalls>>
    /\ UNCHANGED <<idVars, evVars, panicked>>

\* availablePlugins.Lock()
Loop_Lock(g) ==
    /\ ~panicked
    /\ loops[g].pc = "lock"
    /\ MutexFree(regLock)
    /\ regLock' = g
    /\ loops' = [loops EXCEPT ![g].pc = "sweep"]
    /\ UNCHANGED <<delegates, registered, ctl, mState, quit, closed, probed, mcalls>>
    /\ UNCHANGED <<idVars, evVars, panicked>>

\* A sweep that evicts the entries it dispatches a probe for.
Loop_Sweep_Evicts(g) ==
    /\ ~panicked
    /\ loops[g].pc = "sweep"
    /\ probed' = {p \in Table(availablePlugins) : aps[p].State = PluginRunning}
    /\ availablePlugins' =
          [tb \in TableNames |->
             [k \in DOMAIN availablePlugins[tb] |->
                {p \in availablePlugins[tb][k] : aps[p].State # PluginRunning}]]
    /\ regLock' = 0
    /\ loops' = [loops EXCEPT ![g].pc = "select"]
    /\ UNCHANGED <<delegates, registered, ctl, mState, quit, closed, mcalls>>
    /\ UNCHANGED <<idVars, aps, mutex, handler, lastReturn, panicked>>

\* A sweep that probes every entry, whatever its State.
Loop_Sweep_ProbesAll(g) ==
    /\ ~panicked
    /\ loops[g].pc = "sweep"
    /\ probed' = Table(availablePlugins)
    /\ regLock' = 0
    /\ loops' = [loops EXCEPT ![g].pc = "select"]
    /\ UNCHANGED <<delegates, registered, ctl, mState, quit, closed, mcalls>>
    /\ UNCHANGED <<idVars, evVars, panicked>>

\* for _, ap := range availablePlugins.Table() { if ap.State == PluginRunning { go ap.checkHealth() } }
\* availablePlugins.Unlock()
Loop_Sweep(g) ==
    /\ ~panicked
    /\ loops[g].pc = "sweep"
    /\ probed' = {p \in Table(availablePlugins) : aps[p].State = PluginRunning}
    /\ regLock' = 0
    /\ loops' = [loops EXCEPT ![g].pc = "select"]
    /\ UNCHANGED <<delegates, registered, ctl, mState, quit, closed, mcalls>>
    /\ UNCHANGED <<idVars, evVars, panicked>>

\* case <-m.quit: ticker.Stop(); m.State = MonitorStopped; return
\* A receive from a closed channel proceeds; from an open or nil one it blocks.
Loop_Quit(g) ==
    /\ ~panicked
    /\ loops[g].pc = "wait"
    /\ loops[g].ch \in closed
    /\ mState' = MonitorStopped
    /\ loops' = [loops EXCEPT ![g].pc = "exited"]
    /\ UNCHANGED <<delegates, registered, ctl, quit, closed, regLock, probed, mcalls>>
    /\ UNCHANGED <<idVars, evVars, panicked>>

\* ------------------------------------------------ monitor.Stop
\* a direct call of r.Monitor().Stop()
MonitorStop ==
    /\ ~panicked
    /\ ctl.pc = "done"
    /\ ctl' = Begin("monitor.Stop", "m_close")
    /\ UNCHANGED <<delegates, registered, mState, quit, closed, loops, regLock, probed, mcalls>>
    /\ UNCHANGED <<idVars, evVars, panicked>>

\* close(m.quit): closing a nil channel or a closed channel panics
Monitor_Stop_Close ==
    /\ ~panicked
    /\ ctl.pc = "m_close"
    /\ mcalls' = Append(mcalls, "Stop")
    /\ IF quit = 0 \/ quit \in closed
       THEN /\ panicked' = TRUE
            /\ ctl' = [ctl EXCEPT !.pc = "panic", !.res = "panic"]
            /\ closed' = closed
       ELSE /\ panicked' = FALSE
            /\ ctl' = [ctl EXCEPT !.pc = "m_stopstate"]
            /\ closed' = closed \cup {quit}
    /\ UNCHANGED <<delegates, registered, mState, quit, loops, regLock, probed>>
    /\ UNCHANGED <<idVars, evVars>>

\* A Stop that leaves the State to the loop goroutine.
Monitor_Stop_State_NoWrite ==
    /\ ~panicked
    /\ ctl.pc = "m_stopstate"
    /\ mState' = mState
    /\ ctl' = IF ctl.op = "monitor.Stop" \/ Len(delegates) = 0
              THEN [ctl EXCEPT !.pc = "done", !.res = "returned"]
              ELSE [ctl EXCEPT !.pc = "rp_unreg", !.i = 1]
    /\ UNCHANGED <<delegates, registered, quit, closed, loops, regLock, probed, mcalls>>
    /\ UNCHANGED <<idVars, evVars, panicked>>

\* m.State = MonitorStopped, and monitor.Stop returns; runner.Stop goes on to
\* its loop over r.delegates (and returns the nil errs when there are none).
Monitor_Stop_State ==
    /\ ~panicked
    /\ ctl.pc = "m_stopstate"
    /\ mState' = MonitorStopped
    /\ ctl' = IF ctl.op = "monitor.Stop" \/ Len(delegates) = 0
              THEN [ctl EXCEPT !.pc = "done", !.res = "returned"]
              ELSE [ctl EXCEPT !.pc = "rp_unreg", !.i = 1]
    /\ UNCHANGED <<delegates, registered, quit, closed, loops, regLock, probed, mcalls>>
    /\ UNCHANGED <<idVars, evVars, panicked>>

\* ------------------------------------------------ runner.Stop
\* r.monitor.Stop()
RunnerStop ==
    /\ ~panicked
    /\ ctl.pc = "done"
    /\ ctl' = Begin("runner.Stop", "m_close")
    /\ UNCHANGED <<delegates, registered, mState, quit, closed, loops, regLock, probed, mcalls>>
    /\ UNCHANGED <<idVars, evVars, panicked>>

\* for _, del := range r.delegates { e := del.UnregisterHandler(...);
\*   if e != nil { errs = append(errs, e) } }; return errs
RunnerStop_Unregister(ok) ==
    /\ ~panicked
    /\ ctl.pc = "rp_unreg"
    /\ registered' = IF ok THEN registered \ {delegates[ctl.i]} ELSE registered
    /\ ctl' = [ctl EXCEPT !.asked = Append(@, delegates[ctl.i]),
                          !.outs = Append(@, ok),
                          !.errs = IF ok THEN @ ELSE Append(@, delegates[ctl.i]),
                          !.i = @ + 1,
                          !.pc = IF ctl.i = Len(delegates) THEN "done" ELSE "rp_unreg",
                          !.res = IF ctl.i = Len(delegates) THEN "returned" ELSE @]
    /\ UNCHANGED <<delegates, mState, quit, closed, loops, regLock, probed, mcalls>>
    /\ UNCHANGED <<idVars, evVars, panicked>>

\* ------------------------------------------------ SpecId: direct callers
\* A caller invokes Next() on the counter.
CallNext(t) ==
    /\ Len(returned) + Cardinality({u \in Threads : npc[u] # "idle"}) < MaxCalls
    /\ NextEnter(t)
    /\ UNCHANGED <<evVars, monVars, panicked>>

\* The call has returned to its caller, which now holds the value.
CallNextDone(t) ==
    /\ npc[t] = "done"
    /\ returned' = Append(returned, nret[t])
    /\ npc' = [npc EXCEPT ![t] = "idle"]
    /\ UNCHANGED <<id, idMutex, nret, nhwm>>
    /\ UNCHANGED <<evVars, monVars, panicked>>

InitId ==
    /\ id = 0
    /\ idMutex = 0
    /\ npc = [t \in Threads |-> "idle"]
    /\ nret = [t \in Threads |-> 0]
    /\ nhwm = [t \in Threads |-> 0]
    /\ returned = <<>>

InitEv ==
    /\ availablePlugins = newAvailablePlugins
    /\ aps = <<>>
    /\ mutex = 0
    /\ handler = [h \in Threads |-> IdleHandler]
    /\ lastReturn = [op |-> "none", ap |-> 0, res |-> "none"]
    /\ panicked = FALSE

\* newRunner(): a new monitor (State Stopped, quit nil), no delegates.
InitMon ==
    /\ delegates = <<>>
    /\ registered = {}
    /\ ctl = NoCall
    /\ mState = MonitorStopped
    /\ quit = 0
    /\ closed = {}
    /\ loops = <<>>
    /\ regLock = 0
    /\ probed = {}
    /\ mcalls = <<>>

Init == InitId /\ InitEv /\ InitMon

NextId ==
    \/ \E t \in Threads : CallNext(t)
    \/ \E t \in Threads : NextLock(t)
    \/ \E t \in Threads : NextInc(t)
    \/ \E t \in Threads : NextRet(t)
    \/ \E t \in Threads : NextUnlock(t)
    \/ \E t \in Threads : CallNextDone(t)

SpecId == Init /\ [][NextId]_vars

Next ==
    \/ \E h \in Threads, e \in Events : HandleGomitEvent(h, e)
    \/ \E h \in Threads : HLock(h)
    \/ \E h \in Threads : HPubLoop(h)
    \/ \E h \in Threads : HGet(h)
    \/ \E h \in Threads : HCheckPool(h)
    \/ \E h \in Threads, ok \in BOOLEAN : HBuild(h, ok)
    \/ \E h \in Threads, ok \in BOOLEAN : StartPlugin_Start(h, ok)
    \/ \E h \in Threads, r \in WaitOutcomes : StartPlugin_WaitForResponse(h, r)
    \/ \E h \in Threads : StartPlugin_NextId(h)
    \/ \E h \in Threads : NextLock(h)
    \/ \E h \in Threads : NextInc(h)
    \/ \E h \in Threads : NextRet(h)
    \/ \E h \in Threads : NextUnlock(h)
    \/ \E h \in Threads, ok \in BOOLEAN : StartPlugin_New(h, ok)
    \/ \E h \in Threads, ok \in BOOLEAN : StartPlugin_Ping(h, ok)
    \/ \E h \in Threads : StartPlugin_Insert(h)
    \/ \E h \in Threads : HStarted(h)
    \/ \E h \in Threads : HPanic(h)

Spec == Init /\ [][Next]_vars

\* The steps of one handler goroutine once the event was delivered to it.
HandlerStep(h) ==
    \/ HLock(h)
    \/ HPubLoop(h)
    \/ HGet(h)
    \/ HCheckPool(h)
    \/ \E ok \in BOOLEAN : HBuild(h, ok)
    \/ \E ok \in BOOLEAN : StartPlugin_Start(h, ok)
    \/ \E r \in WaitOutcomes : StartPlugin_WaitForResponse(h, r)
    \/ StartPlugin_NextId(h)
    \/ NextLock(h)
    \/ NextInc(h)
    \/ NextRet(h)
    \/ NextUnlock(h)
    \/ \E ok \in BOOLEAN : StartPlugin_New(h, ok)
    \/ \E ok \in BOOLEAN : StartPlugin_Ping(h, ok)
    \/ StartPlugin_Insert(h)
    \/ HStarted(h)
    \/ HPanic(h)

\* Event handling under the scheduler: a goroutine that can run does run, the
\* calls to the transport return, and a goroutine waiting in r.mutex.Lock()
\* gets the mutex when it is released often enough.
SpecFair ==
    /\ Init
    /\ [][Next]_vars
    /\ \A h \in Threads : WF_vars(HandlerStep(h))
    /\ \A h \in Threads : SF_vars(HLock(h))

\* Event handling together with stopPlugin calls.
NextLife ==
    \/ Next
    \/ \E p \in 1..MaxPlugins, ok \in BOOLEAN : stopPlugin(p, ok)

SpecLife == Init /\ [][NextLife]_vars

\* runner.Start / runner.Stop, direct monitor.Start / monitor.Stop, and the loops.
NextMon ==
    \/ AddDelegates
    \/ RunnerStart
    \/ \E ok \in BOOLEAN : RunnerStart_Register(ok)
    \/ MonitorStart
    \/ Monitor_Start_Go
    \/ Monitor_Start_State
    \/ \E g \in 1..Len(loops) : Loop_Select(g)
    \/ \E g \in 1..Len(loops) : Loop_Tick(g)
    \/ \E g \in 1..Len(loops) : Loop_Lock(g)
    \/ \E g \in 1..Len(loops) : Loop_Sweep(g)
    \/ \E g \in 1..Len(loops) : Loop_Quit(g)
    \/ MonitorStop
    \/ Monitor_Stop_Close
    \/ Monitor_Stop_State
    \/ RunnerStop
    \/ \E ok \in BOOLEAN : RunnerStop_Unregister(ok)

SpecMon == Init /\ [][NextMon]_vars

\* ------------------------------------------------ next to a running monitor
\* The event bus delivers an event while fewer than MaxSweepPlugins instances
\* were built.
Deliver(h, e) ==
    /\ Len(aps) + InFlight < MaxSweepPlugins
    /\ HandleGomitEvent(h, e)

\* The State of an instance is written by the instance's own code (its stop
\* and its health check), outside the runner and the monitor.
SetState(p, st) ==
    /\ ~panicked
    /\ p \in Held
    /\ aps[p].State # st
    /\ aps' = [aps EXCEPT ![p].State = st]
    /\ UNCHANGED <<availablePlugins, mutex, handler, lastReturn, panicked, idVars, monVars>>

\* go ap.checkHealth(): the probe runs on its own and ends on its own.
CheckHealthDone(p) ==
    /\ ~panicked
    /\ p \in probed
    /\ probed' = probed \ {p}
    /\ UNCHANGED <<delegates, registered, ctl, mState, quit, closed, loops, regLock, mcalls>>
    /\ UNCHANGED <<idVars, evVars, panicked>>

\* monitor.Start is called once, on the new monitor.
MonitorStartOnce ==
    /\ Len(loops) = 0
    /\ MonitorStart

\* Event handling, stopPlugin and the instances' own State changes while the
\* monitor is started and sweeps.
NextSweep ==
    \/ \E h \in Threads, e \in Events : Deliver(h, e)
    \/ \E h \in Threads : HandlerStep(h)
    \/ \E p \in 1..MaxSweepPlugins, ok \in BOOLEAN : stopPlugin(p, ok)
    \/ \E p \in 1..MaxSweepPlugins, st \in {PluginRunning, PluginStopped, PluginDisabled} :
          SetState(p, st)
    \/ \E p \in 1..MaxSweepPlugins : CheckHealthDone(p)
    \/ MonitorStartOnce
    \/ Monitor_Start_Go
    \/ Monitor_Start_State
    \/ \E g \in 1..Len(loops) : Loop_Select(g)
    \/ \E g \in 1..Len(loops) : Loop_Tick(g)
    \/ \E g \in 1..Len(loops) : Loop_Lock(g)
    \/ \E g \in 1..Len(loops) : Loop_Sweep(g)

SpecSweep == Init /\ [][NextSweep]_vars

\* Event handling and stopPlugin while the monitor is started, sweeps and is
\* stopped.
NextFrame ==
    \/ \E h \in Threads, e \in Events : Deliver(h, e)
    \/ \E h \in Threads : HandlerStep(h)
    \/ \E p \in 1..MaxSweepPlugins, ok \in BOOLEAN : stopPlugin(p, ok)
    \/ MonitorStartOnce
    \/ Monitor_Start_Go
    \/ Monitor_Start_State
    \/ \E g \in 1..Len(loops) : Loop_Select(g)
    \/ \E g \in 1..Len(loops) : Loop_Tick(g)
    \/ \E g \in 1..Len(loops) : Loop_Lock(g)
    \/ \E g \in 1..Len(loops) : Loop_Sweep(g)
    \/ \E g \in 1..Len(loops) : Loop_Quit(g)
    \/ MonitorStop
    \/ Monitor_Stop_Close
    \/ Monitor_Stop_State

SpecFrame == Init /\ [][NextFrame]_vars

\* C2: for a fresh counter, the values returned by completed calls are pairwise
\* distinct and lie in 1..id; once no call is in flight they are exactly
\* 1..N for the N calls made; and the value a call obtains is strictly greater
\* than every value returned by a call that had completed when it began.
C2_NextDistinctRun ==
    /\ \A i, j \in 1..Len(returned) : i # j => returned[i] # returned[j]
    /\ SeqToSet(returned) \subseteq 1..id
    /\ (\A t \in Threads : npc[t] = "idle") => SeqToSet(returned) = 1..Len(returned)
    /\ \A t \in Threads : npc[t] \in {"unlock", "done"} =>
          /\ nret[t] > nhwm[t]
          /\ nret[t] \notin SeqToSet(returned)
          /\ \A u \in Threads : (u # t /\ npc[u] \in {"unlock", "done"}) => nret[u] # nret[t]

\* Two overlapping calls completed in the opposite order of their values, and
\* every call has returned.
C2_Witness ==
    /\ Len(returned) = MaxCalls
    /\ \A t \in Threads : npc[t] = "idle"
    /\ returned[1] > returned[2]

\* ------------------------------------------------ claims on event handling
\* The key an in-flight handler has resolved its event to, and that key's pool.
HKey(h) == Key(LoadedPlugins[handler[h].lp])

HPool(h) == GetPluginPool(availablePlugins[TableFor(HKey(h)[1])], HKey(h))

\* C1: whatever the interleaving of the handlers of concurrently delivered
\* events, no pool of the registry ever holds more than MaximumRunningPlugins
\* instances.
C1_PoolNeverExceedsMax ==
    \A tb \in TableNames : \A k \in DOMAIN availablePlugins[tb] :
        Cardinality(availablePlugins[tb][k]) <= MaximumRunningPlugins

\* A handler has just filled a pool to the maximum while another handler, with
\* an event for the same plugin, is blocked on the runner mutex.
C1_Witness ==
    \E h1, h2 \in Threads :
        /\ h1 # h2
        /\ handler[h1].pc = "sp_ok"
        /\ Count(HPool(h1)) = MaximumRunningPlugins
        /\ handler[h2].pc = "lock"
        /\ handler[h2].ev = handler[h1].ev
        /\ ~panicked

\* C3: a failed startPlugin inside HandleGomitEvent never panics: no handler
\* ends in a panic and the process goes on.
C3_StartErrorDoesNotPanic ==
    /\ ~panicked
    /\ \A h \in Threads : handler[h].pc # "panic"

\* C6: when startPlugin has returned an error, the instance it returns is nil
\* and the registry is what it was when the handler called it.
C6_FailedStartLeavesRegistry ==
    \A h \in Threads : handler[h].pc = "sp_fail" =>
        /\ handler[h].ap = 0
        /\ handler[h].err # ""
        /\ availablePlugins = handler[h].reg0

\* startPlugin failed at the ping, after an instance was built, with another
\* instance already registered.
C6_Witness ==
    \E h \in Threads :
        /\ handler[h].pc = "sp_fail"
        /\ handler[h].err = "ping"
        /\ Table(availablePlugins) # {}
        /\ Len(aps) > Cardinality(Table(availablePlugins))

\* C7: the step of a handler that checks a pool holding MaximumRunningPlugins
\* instances ends the invocation: no transport call was made, no identity is
\* allocated, the registry is unchanged, the mutex is released, nothing panics.
C7_FullPoolDenied ==
    [][\A h \in Threads :
         (/\ handler[h].pc = "check"
          /\ handler'[h] # handler[h]
          /\ Count(HPool(h)) >= MaximumRunningPlugins)
         => (/\ handler'[h] = IdleHandler
             /\ handler[h].tc = 0
             /\ lastReturn' = [op |-> "HandleGomitEvent", ap |-> 0, res |-> "denied"]
             /\ id' = id
             /\ npc'[h] = "idle"
             /\ aps' = aps
             /\ availablePlugins' = availablePlugins
             /\ mutex' = 0
             /\ ~panicked')]_vars

\* An event was denied: it has returned, and a pool holds the maximum.
C7_Witness ==
    /\ lastReturn = [op |-> "HandleGomitEvent", ap |-> 0, res |-> "denied"]
    /\ \E tb \in TableNames : \E k \in DOMAIN availablePlugins[tb] :
          Cardinality(availablePlugins[tb][k]) = MaximumRunningPlugins
    /\ mutex = 0
    /\ ~panicked

StopOps == {"monitor.Stop", "runner.Stop"}

\* C4: a Stop() (monitor.Stop, or runner.Stop through it) called while the
\* monitor's State is Stopped does not panic.
C4_StopWhenStoppedIsSafe ==
    (ctl.op \in StopOps /\ ctl.state0 = MonitorStopped) => ctl.pc # "panic"

\* C5: on a new monitor, after Start() and then Stop() and nothing else,
\* nothing has panicked, and from the return of Stop() on the State is
\* Stopped, wherever the loop goroutine is, also after it has exited.
C5_StartThenStopIsStopped ==
    (mcalls = <<"Start", "Stop">>) =>
        /\ ~panicked
        /\ ctl.pc # "m_stopstate" => mState = MonitorStopped

\* Start() then Stop() have returned and the loop goroutine has exited.
C5_Witness ==
    /\ mcalls = <<"Start", "Stop">>
    /\ ctl.pc = "done"
    /\ ctl.op \in StopOps
    /\ loops[1].pc = "exited"
    /\ mState = MonitorStopped

\* The same, with the loop goroutine not yet scheduled since it was launched.
C5_WitnessLoopNotRun ==
    /\ mcalls = <<"Start", "Stop">>
    /\ ctl.pc = "done"
    /\ ctl.op \in StopOps
    /\ loops[1].pc = "select"
    /\ mState = MonitorStopped

AllTrue(outs) == \A i \in 1..Len(outs) : outs[i]

\* C9: once runner.Start() has returned, it has returned success exactly when
\* there is at least one delegate and RegisterHandler succeeded on every one
\* of them; and, the monitor having been Stopped when Start() was called, its
\* State is Started exactly when Start() returned success.
C9_StartedIffStartSucceeded ==
    (ctl.op = "runner.Start" /\ ctl.pc = "done") =>
        /\ (ctl.res = "ok") <=>
              (ctl.n0 >= 1 /\ Len(ctl.outs) = ctl.n0 /\ AllTrue(ctl.outs))
        /\ (ctl.state0 = MonitorStopped) =>
              ((mState = MonitorStarted) <=> (ctl.res = "ok"))

\* What holds of the code: the same at the step by which runner.Start()
\* returns, together with: it has launched a sweep loop exactly when it
\* returns success.
C9_AtReturnOfStart ==
    [][(ctl' # ctl /\ ctl'.op = "runner.Start" /\ ctl'.pc = "done") =>
         /\ (ctl'.res = "ok") <=>
               (ctl'.n0 >= 1 /\ Len(ctl'.outs) = ctl'.n0 /\ AllTrue(ctl'.outs))
         /\ ctl'.res \in {"ok", "no_delegates", "register_err"}
         /\ Len(loops') = ctl'.loops0 + (IF ctl'.res = "ok" THEN 1 ELSE 0)
         /\ (ctl'.state0 = MonitorStopped) =>
               ((mState' = MonitorStarted) <=> (ctl'.res = "ok"))]_vars

\* runner.Start() has returned success with two delegates: one loop, Started.
C9_ReachedSuccess ==
    /\ ctl.op = "runner.Start"
    /\ ctl.pc = "done"
    /\ ctl.res = "ok"
    /\ ctl.n0 = 2
    /\ registered = {1, 2}
    /\ Len(loops) = 1
    /\ mState = MonitorStarted

\* runner.Start() has returned the error of the second delegate: no loop, Stopped.
C9_ReachedFailure ==
    /\ ctl.op = "runner.Start"
    /\ ctl.pc = "done"
    /\ ctl.res = "register_err"
    /\ ctl.outs = <<TRUE, FALSE>>
    /\ Len(loops) = 0
    /\ mState = MonitorStopped

\* The delegates of r.delegates whose UnregisterHandler failed, in order.
RECURSIVE Failed(_, _)
Failed(ds, outs) ==
    IF ds = <<>> \/ outs = <<>> THEN <<>>
    ELSE (IF Head(outs) THEN <<>> ELSE <<Head(ds)>>) \o Failed(Tail(ds), Tail(outs))

UnregisteredAll ==
    /\ ctl.asked = delegates
    /\ Len(ctl.outs) = Len(delegates)
    /\ ctl.errs = Failed(delegates, ctl.outs)
    /\ (ctl.errs = <<>>) <=> AllTrue(ctl.outs)

\* C10: when a runner.Stop() call is over, UnregisterHandler has been called
\* on every delegate, in order, and the errors collected are exactly those of
\* the delegates whose unregistration failed, in order.
C10_StopUnregistersEveryDelegate ==
    (ctl.op = "runner.Stop" /\ ctl.pc \in {"done", "panic"}) => UnregisteredAll

\* What holds of the code: the same, for the runner.Stop() calls that return.
C10_WhenStopReturns ==
    (ctl.op = "runner.Stop" /\ ctl.pc = "done") => UnregisteredAll

\* C11: when RegisterHandler fails on the k-th delegate during runner.Start(),
\* Start returns that delegate's error at once: the delegates asked are the
\* first k of r.delegates, no delegate after the k-th is asked, every delegate
\* before the k-th succeeded and is still registered when Start has returned,
\* and the monitor is not started by the call.
C11_StartAbortsAtFirstFailure ==
    (ctl.op = "runner.Start") =>
        /\ Len(ctl.outs) = Len(ctl.asked)
        /\ Len(ctl.asked) <= Len(delegates)
        /\ ctl.asked = SubSeq(delegates, 1, Len(ctl.asked))
        /\ \A i \in 1..(Len(ctl.outs) - 1) : ctl.outs[i]
        /\ (ctl.outs # <<>> /\ ~ctl.outs[Len(ctl.outs)]) =>
              /\ ctl.pc = "done"
              /\ ctl.res = "register_err"
              /\ Len(loops) = ctl.loops0
              /\ \A i \in 1..(Len(ctl.outs) - 1) : delegates[i] \in registered
        /\ (ctl.pc = "done" /\ ctl.res = "register_err") =>
              (ctl.outs # <<>> /\ ~ctl.outs[Len(ctl.outs)])

\* Of three delegates never registered before, the second failed: Start has
\* returned its error, the first is registered and the third was never asked.
C11_Witness ==
    /\ ctl.op = "runner.Start"
    /\ ctl.pc = "done"
    /\ ctl.res = "register_err"
    /\ ctl.n0 = 3
    /\ ctl.outs = <<TRUE, FALSE>>
    /\ ctl.asked = <<1, 2>>
    /\ registered = {1}
    /\ mcalls = <<>>

\* ------------------------------------------------ claims on the metric lookup
\* The handler's event is a metric subscription the catalog cannot resolve.
Unresolved(h) ==
    /\ handler[h].ev.Type = "MetricSubscriptionEvent"
    /\ MetricCatalogGet(handler[h].ev.Name, handler[h].ev.Version) = 0

\* C12: a handler whose metric-subscription event the catalog cannot resolve
\* never reaches the admission check or startPlugin, makes no transport call
\* and no call of the identity allocator; the step that follows the failed
\* lookup ends the invocation with the registry, the instances built and the
\* counter unchanged, the runner mutex released, and no panic.
C12_UnresolvedMetricIsDropped ==
    /\ [](\A h \in Threads : Unresolved(h) =>
             /\ handler[h].pc \in {"lock", "get"}
             /\ handler[h].tc = 0
             /\ handler[h].ap = 0
             /\ npc[h] = "idle")
    /\ [][\A h \in Threads :
            (Unresolved(h) /\ handler[h].pc = "get" /\ handler'[h] # handler[h])
            => (/\ handler'[h] = IdleHandler
                /\ lastReturn' = [op |-> "HandleGomitEvent", ap |-> 0, res |-> "miss"]
                /\ availablePlugins' = availablePlugins
                /\ aps' = aps
                /\ id' = id
                /\ mutex' = 0
                /\ ~panicked')]_vars

\* An unresolvable metric event was dropped with an instance in the registry,
\* and a handler that was waiting for the mutex has gone on since.
C12_Witness ==
    /\ lastReturn = [op |-> "HandleGomitEvent", ap |-> 0, res |-> "miss"]
    /\ Table(availablePlugins) # {}
    /\ \E h \in Threads : handler[h].pc = "check" /\ mutex = h
    /\ ~panicked

\* ------------------------------------------------ claims on identities
\* C13: all the instances ever built by startPlugin have pairwise distinct
\* IDs, whether they were registered, failed at the ping or were removed by
\* stopPlugin; every ID is a value the counter has handed out; and a value a
\* handler has obtained from the counter for the instance it is about to
\* build is the ID of no instance.
C13_InstanceIdsDistinct ==
    /\ \A p, q \in 1..Len(aps) : p # q => aps[p].ID # aps[q].ID
    /\ \A p \in 1..Len(aps) : aps[p].ID \in 1..id
    /\ \A h \in Threads :
          (handler[h].pc = "sp_id" /\ npc[h] \in {"unlock", "done"}) =>
              /\ nret[h] \in 1..id
              /\ \A p \in 1..Len(aps) : aps[p].ID # nret[h]

\* Three instances were built: the first was registered and then removed by
\* stopPlugin, the second is registered, the third failed at the ping.
C13_Witness ==
    /\ Len(aps) = 3
    /\ lastReturn = [op |-> "stopPlugin", ap |-> 1, res |-> "nil"]
    /\ Table(availablePlugins) = {2}
    /\ \E h \in Threads : handler[h].pc = "sp_fail" /\ handler[h].err = "ping"

\* ------------------------------------------------ claims on the runner mutex
\* The handlers between r.mutex.Lock() and their return.
Inside == {h \in Threads : handler[h].pc \notin {"idle", "lock", "panic"}}

\* C14: at most one HandleGomitEvent invocation is past r.mutex.Lock() at any
\* time, and it holds the mutex; the mutex is free whenever no invocation is
\* past Lock(), whichever way the last one left (denied, lookup miss, success,
\* the panic of a failed start); every invocation that holds the mutex gives
\* it up, and an invocation waiting in Lock() gets past it unless the process
\* has ended first.
C14_HandlersAreSerialized ==
    /\ [](/\ Cardinality(Inside) <= 1
          /\ \A h \in Inside : mutex = h
          /\ (Inside = {}) => mutex = 0)
    /\ \A h \in Threads : (mutex = h) ~> (mutex # h)
    /\ \A h \in Threads :
          (handler[h].pc = "lock") ~> (handler[h].pc # "lock" \/ panicked)

\* A handler is past the admission check, in its start sequence, while the
\* other handler waits for the mutex it holds; the invocation before them left
\* on a lookup miss.
C14_Witness ==
    \E h1, h2 \in Threads :
        /\ handler[h1].pc = "sp_ping"
        /\ mutex = h1
        /\ handler[h2].pc = "lock"
        /\ lastReturn.res = "miss"

\* ------------------------------------------------ claims on the registry lock
\* C15: while a sweep holds the registry lock, between its Lock() and its
\* Unlock(), no Insert and no Remove takes effect: the pools are left as they
\* are by every step taken while the lock is held.
C15_NoMutationDuringSweep ==
    [][(regLock # 0) => (availablePlugins' = availablePlugins)]_vars

\* ------------------------------------------------ claims on the sweep loops
\* The loop goroutines that have not returned.
Active == {g \in 1..Len(loops) : loops[g].pc # "exited"}

\* Every background step has finished: no call is in progress and every loop
\* has returned or waits in its select on a channel that is not closed.
Quiescent ==
    /\ ctl.pc = "done"
    /\ regLock = 0
    /\ \A g \in Active : loops[g].pc = "wait" /\ loops[g].ch \notin closed

\* The monitor calls made so far are Start, Stop, Start, ... in turn.
Alternating ==
    \A i \in 1..Len(mcalls) : mcalls[i] = (IF i % 2 = 1 THEN "Start" ELSE "Stop")

\* C16: with the calls Start, Stop, Start, ... made in turn: once the Stop()
\* matching a Start() has closed that Start's channel,
\* the loop launched by that Start() is on its way out: when it waits in its
\* select, it waits on a closed channel, so its quit branch can be taken, also
\* when Start() was called again in between; and once the system is quiescent
\* at most one sweep loop is active.
C16_StoppedLoopTerminates ==
    (Alternating /\ ~panicked) =>
        /\ \A g \in Active :
              (g \in closed /\ loops[g].pc = "wait") => loops[g].ch \in closed
        /\ Quiescent => Cardinality(Active) <= 1

\* C17: after Start, Stop, Start, ... in turn, once every background step has
\* finished, State is Started exactly when the last call was Start, and State
\* is Stopped exactly when no sweep loop is active.
C17_StateTellsWhetherALoopRuns ==
    (Quiescent /\ Alternating /\ mcalls # <<>> /\ ~panicked) =>
        /\ (mState = MonitorStarted) <=> (mcalls[Len(mcalls)] = "Start")
        /\ (mState = MonitorStopped) <=> (Active = {})

\* ------------------------------------------------ claims on the tick
\* The registry entries whose State is Running.
RunningEntries == {p \in Table(availablePlugins) : aps[p].State = PluginRunning}

\* C18: a loop sweeps only with the registry lock, taken after the tick, in
\* its hands; the sweep dispatches a health probe for exactly the registry
\* entries whose State is Running, none for an entry that is Stopped or
\* Disabled, and releases the lock in the same breath, whether or not the
\* probes of an earlier sweep have ended; the lock is never held by a loop
\* that waits in its select or has not yet passed Lock().
C18_TickProbesRunningEntries ==
    /\ [](\A g \in 1..Len(loops) :
             /\ (loops[g].pc = "sweep") <=> (regLock = g)
             /\ (loops[g].pc = "sweep" /\ ~panicked) => ENABLED Loop_Sweep(g))
    /\ [][\A g \in 1..Len(loops) :
            /\ (loops[g].pc = "sweep" /\ loops'[g].pc # "sweep") =>
                  /\ probed' = RunningEntries
                  /\ \A p \in Table(availablePlugins) :
                        aps[p].State \in {PluginStopped, PluginDisabled} => p \notin probed'
                  /\ regLock' = 0
                  /\ loops'[g].pc = "select"
            /\ (loops[g].pc # "sweep" /\ loops'[g].pc = "sweep") =>
                  (loops[g].pc = "lock" /\ regLock = 0)
            /\ (loops[g].pc = "wait" /\ loops'[g].pc \notin {"wait", "exited"}) =>
                  loops'[g].pc = "lock"]_vars

\* After a sweep over two entries, one Running and one Disabled, the loop
\* waits in its select with the lock free while the probe of the Running
\* entry, the only one dispatched, still runs.
C18_Witness ==
    /\ Len(loops) = 1
    /\ loops[1].pc = "wait"
    /\ regLock = 0
    /\ Table(availablePlugins) = {1, 2}
    /\ aps[1].State = PluginRunning
    /\ aps[2].State = PluginDisabled
    /\ probed = {1}
    /\ ~panicked

\* ------------------------------------------------ claims on stopPlugin
\* C19: a stopPlugin(reason, ap) call that returns the error of ap.Stop has
\* left every pool as it was, ap included when it was there; one that returns
\* the error of Remove was given an ap that is not in its pool, and has left
\* every pool as it was; one that returns nil was given an ap that was in its
\* pool, has taken exactly ap out of that pool, and ap is in the registry no
\* more.
C19_StopThenRemove ==
    [][(lastReturn' # lastReturn /\ lastReturn'.op = "stopPlugin") =>
         LET p == lastReturn'.ap
         IN /\ lastReturn'.res \in {"stop_err", "remove_err", "nil"}
            /\ (lastReturn'.res = "stop_err") =>
                  /\ availablePlugins' = availablePlugins
                  /\ Present(availablePlugins, p) => p \in Table(availablePlugins')
            /\ (lastReturn'.res = "remove_err") =>
                  /\ ~Present(availablePlugins, p)
                  /\ availablePlugins' = availablePlugins
            /\ (lastReturn'.res = "nil") =>
                  /\ Present(availablePlugins, p)
                  /\ Table(availablePlugins') = Table(availablePlugins) \ {p}
                  /\ \A tb \in TableNames :
                        /\ DOMAIN availablePlugins'[tb] = DOMAIN availablePlugins[tb]
                        /\ \A k \in DOMAIN availablePlugins[tb] :
                              availablePlugins'[tb][k] = availablePlugins[tb][k] \ {p}]_vars

\* The first instance was stopped and removed, then stopped again: the second
\* call got the error of Remove, and the other instance is still in its pool.
C19_Witness ==
    /\ lastReturn = [op |-> "stopPlugin", ap |-> 1, res |-> "remove_err"]
    /\ Len(aps) >= 2
    /\ Table(availablePlugins) = {2}
    /\ \A h \in Threads : handler[h].pc = "idle"

\* ------------------------------------------------ claims on pool membership
\* C20: every step that changes the membership of a pool is the Insert of a
\* successful startPlugin, which adds the new instance, or the Remove of a
\* stopPlugin that returns nil, which takes its instance out; no step of
\* monitor.Start, of a loop goroutine (the tick, the sweep, the quit branch)
\* or of monitor.Stop changes a pool.
C20_OnlyStartAndStopPluginChangePools ==
    [][/\ (availablePlugins' # availablePlugins) =>
            \/ \E h \in Threads :
                  /\ handler[h].pc = "sp_insert"
                  /\ handler'[h].pc = "sp_ok"
                  /\ availablePlugins' = Insert(availablePlugins, handler[h].ap)
            \/ /\ lastReturn' = [op |-> "stopPlugin", ap |-> lastReturn'.ap, res |-> "nil"]
               /\ lastReturn' # lastReturn
               /\ handler' = handler
               /\ availablePlugins' = Remove(availablePlugins, lastReturn'.ap)
       /\ (ctl' # ctl \/ loops' # loops \/ mState' # mState \/ quit' # quit
             \/ closed' # closed \/ regLock' # regLock \/ probed' # probed) =>
            availablePlugins' = availablePlugins]_vars

\* monitor.Start, a sweep that dispatched a probe, monitor.Stop and the exit
\* of the loop have all happened with an instance in the registry: of the two
\* instances built, stopPlugin removed the first, the second is in its pool.
C20_Witness ==
    /\ mcalls = <<"Start", "Stop">>
    /\ loops[1].pc = "exited"
    /\ ctl.pc = "done"
    /\ probed = {2}
    /\ Len(aps) = 2
    /\ Table(availablePlugins) = {2}
    /\ lastReturn = [op |-> "stopPlugin", ap |-> 1, res |-> "nil"]
    /\ ~panicked

====
